---- MODULE Spec2Model ----
(***************************************************************************)
(* The css selector builder of src/src/05-objects-tasks.js as a state      *)
(* machine over a heap of builder instances.                               *)
(*                                                                         *)
(* An instance is cssSelectorBuilder itself (Base) or an object made by    *)
(* Object.create(cssSelectorBuilder) inside a fragment operation.  Every   *)
(* instance has the own properties `line` (a string, here a sequence of    *)
(* characters) and `order` (a reference to an array of kind names, here    *)
(* an index into the array heap `arr`).                                    *)
(***************************************************************************)
EXTENDS Integers, Sequences, FiniteSets, TLC

\* ------------------------------------------------------------------ bounds
MaxObjs == 2        \* instances created by Object.create in one run
MaxLen == 9         \* longest text combine is let to build
MaxArgs == 5        \* longest argument list handed to combine
MaxCombines == 1    \* calls of combine in one run of Spec
MaxNested == 3      \* calls of combine in one run of SpecNested
MaxNestedArgs == 3  \* longest argument list handed to combine in SpecNested
MaxItems == 1       \* longest array among the values handed to getJSON

Values == {<<"a">>, <<"b">>}      \* the strings handed to fragment operations
Tokens == {<<"+">>}                \* the combinator strings handed to combine

\* --------------------------------------------------------------- the heap
Base == 0                          \* the object cssSelectorBuilder
ArrIds == 0 .. MaxObjs + 1         \* array references (reused once garbage)

VARIABLES
    line,      \* line[o]: the own property `line` of instance o
    order,     \* order[o]: the array the own property `order` of o refers to
    arr,       \* arr[r]: the contents of array r
    last,      \* the latest call: its receiver, inputs, outcome and pre-state
    before,    \* what the combine calls right before `last` returned
    chain,     \* chain[o]: the fragments o stands for as an untouched chain
    combines,  \* how many times combine has been called
    plain,     \* the object handed to getJSON: its own enumerable properties
    proto,     \* the prototype handed to fromJSON
    json,      \* the string getJSON returned
    ans,       \* the object fromJSON returned
    pc         \* where the round trip through getJSON and fromJSON stands

vars == <<line, order, arr, last, before, chain, combines,
          plain, proto, json, ans, pc>>

Kinds == {"element", "id", "class", "attr", "pseudoClass", "pseudoElement"}

State == [line |-> line, order |-> order, arr |-> arr]

Objs(st) == DOMAIN st.line

\* this.order read as a value
orderOf(st, o) == st.arr[st.order[o]]

\* ----------------------------------------------------------- array helpers
\* Array.prototype.includes
includes(a, x) == \E i \in 1 .. Len(a) : a[i] = x

\* The JavaScript expression  s || e  for a string s
jsOr(s, e) == IF s # "" THEN s ELSE e

\* The array an `[]` literal evaluated for instance self produces: one that no
\* other instance refers to (the array self referred to is garbage once the
\* assignment is done, unless another instance holds it).
newArray(st, self) ==
    CHOOSE r \in ArrIds :
        /\ \A o \in Objs(st) \ {self} : st.order[o] # r
        /\ \A q \in ArrIds :
              (\A o \in Objs(st) \ {self} : st.order[o] # q) => r <= q

\* this.order = []
assignEmptyOrder(st, self) ==
    LET r == newArray(st, self)
        held(q) == \E o \in Objs(st) \ {self} : st.order[o] = q
    IN  [st EXCEPT !.order[self] = r,
                   !.arr = [q \in ArrIds |->
                              IF q = r THEN <<>>
                              ELSE IF held(q) THEN st.arr[q] ELSE <<>>]]

\* this.order.push(kind): the array is changed in place
push(st, self, kind) ==
    [st EXCEPT !.arr[st.order[self]] = Append(@, kind)]

\* ---------------------------------------------------------------- validate
DuplicateMessage ==
    "Element, id and pseudo-element should not occur more then one time inside the selector"

OrderMessage ==
    "Selector parts should be arranged in the following order: element, id, class, attribute, pseudo-class, pseudo-element"

\* duplicateThrown with the case 'id' left out
duplicateThrownNoId(addition, ord) ==
    CASE addition = "element"       -> includes(ord, "element")
      [] addition = "pseudoElement" -> includes(ord, "pseudoElement")
      [] OTHER                      -> FALSE

\* The first switch of validate: TRUE when it throws
duplicateThrown(addition, ord) ==
    CASE addition = "element"       -> includes(ord, "element")
      [] addition = "id"            -> includes(ord, "id")
      [] addition = "pseudoElement" -> includes(ord, "pseudoElement")
      [] OTHER                      -> FALSE

\* orderThrown with the case 'class' not looking for 'attr'
orderThrownClassAfterAttr(addition, ord) ==
    CASE addition = "element" ->
            \/ includes(ord, "pseudoElement") \/ includes(ord, "class")
            \/ includes(ord, "pseudoClass") \/ includes(ord, "attr")
            \/ includes(ord, "id")
      [] addition = "id" ->
            \/ includes(ord, "pseudoElement") \/ includes(ord, "class")
            \/ includes(ord, "pseudoClass") \/ includes(ord, "attr")
      [] addition = "class" ->
            \/ includes(ord, "pseudoElement")
            \/ includes(ord, "pseudoClass")
      [] addition = "attr" ->
            \/ includes(ord, "pseudoElement")
            \/ includes(ord, jsOr("pseudoClass", includes(ord, "attr")))
      [] addition = "pseudoClass" ->
            includes(ord, "pseudoElement")
      [] OTHER -> FALSE

\* orderThrown with the case 'attr' looking for 'attr' as well, as its
\* misplaced parenthesis suggests was meant
orderThrownAttrOnce(addition, ord) ==
    CASE addition = "element" ->
            \/ includes(ord, "pseudoElement") \/ includes(ord, "class")
            \/ includes(ord, "pseudoClass") \/ includes(ord, "attr")
            \/ includes(ord, "id")
      [] addition = "id" ->
            \/ includes(ord, "pseudoElement") \/ includes(ord, "class")
            \/ includes(ord, "pseudoClass") \/ includes(ord, "attr")
      [] addition = "class" ->
            \/ includes(ord, "pseudoElement") \/ includes(ord, "attr")
            \/ includes(ord, "pseudoClass")
      [] addition = "attr" ->
            \/ includes(ord, "pseudoElement")
            \/ includes(ord, "pseudoClass")
            \/ includes(ord, "attr")
      [] addition = "pseudoClass" ->
            includes(ord, "pseudoElement")
      [] OTHER -> FALSE

\* The second switch of validate: TRUE when it throws
orderThrown(addition, ord) ==
    CASE addition = "element" ->
            \/ includes(ord, "pseudoElement") \/ includes(ord, "class")
            \/ includes(ord, "pseudoClass") \/ includes(ord, "attr")
            \/ includes(ord, "id")
      [] addition = "id" ->
            \/ includes(ord, "pseudoElement") \/ includes(ord, "class")
            \/ includes(ord, "pseudoClass") \/ includes(ord, "attr")
      [] addition = "class" ->
            \/ includes(ord, "pseudoElement") \/ includes(ord, "attr")
            \/ includes(ord, "pseudoClass")
      [] addition = "attr" ->
            \/ includes(ord, "pseudoElement")
            \/ includes(ord, jsOr("pseudoClass", includes(ord, "attr")))
      [] addition = "pseudoClass" ->
            includes(ord, "pseudoElement")
      [] OTHER -> FALSE

\* validate throwing the Error of the second switch in both switches
validateOneMessage(addition, ord) ==
    IF duplicateThrown(addition, ord) THEN OrderMessage
    ELSE IF orderThrown(addition, ord) THEN OrderMessage
    ELSE ""

\* validate with the two switches in the other order
validateOrderFirst(addition, ord) ==
    IF orderThrown(addition, ord) THEN OrderMessage
    ELSE IF duplicateThrown(addition, ord) THEN DuplicateMessage
    ELSE ""

\* validate(addition) on an instance whose order array holds ord: the message
\* of the Error it throws, or "" when it returns true
validate(addition, ord) ==
    IF duplicateThrown(addition, ord) THEN DuplicateMessage
    ELSE IF orderThrown(addition, ord) THEN OrderMessage
    ELSE ""

\* ------------------------------------------------------- values of a call
retObj(o) == [t |-> "obj", o |-> o, s |-> <<>>]
retStr(s) == [t |-> "str", o |-> Base, s |-> s]
retNone == [t |-> "none", o |-> Base, s |-> <<>>]

thrown(st, msg) == [st |-> st, thrown |-> msg, ret |-> retNone]
returned(st, v) == [st |-> st, thrown |-> "", ret |-> v]

\* ------------------------------------------------- the fragment operations
\* addProperty(obj, name): obj gets the own property `name` holding this[name];
\* for `order` that is the reference, not a copy of the array
addProperty(st, self, obj, name) ==
    [st EXCEPT ![name] = (obj :> st[name][self]) @@ st[name]]

\* derive without `this.order = []`: the receiver keeps the array it handed on
deriveSharing(st, self) ==
    LET obj == Cardinality(Objs(st))
        s1 == addProperty(st, self, obj, "line")
        s2 == addProperty(s1, self, obj, "order")
        s4 == [s2 EXCEPT !.line[self] = <<>>]
    IN  returned(s4, retObj(obj))

\* The tail every fragment operation ends with: Object.create, the two
\* addProperty calls, then the receiver's order and line are reset
derive(st, self) ==
    LET obj == Cardinality(Objs(st))
        s1 == addProperty(st, self, obj, "line")
        s2 == addProperty(s1, self, obj, "order")
        s3 == assignEmptyOrder(s2, self)
        s4 == [s3 EXCEPT !.line[self] = <<>>]
    IN  returned(s4, retObj(obj))

elementCall(st, self, el) ==
    LET v == validate("element", orderOf(st, self))
        s1 == [st EXCEPT !.line[self] = @ \o el]
    IN  IF v # "" THEN thrown(st, v) ELSE derive(push(s1, self, "element"), self)

\* id appending '#' before it validates
idCallAppendsFirst(st, self, val) ==
    LET s1 == [st EXCEPT !.line[self] = @ \o <<"#">>]
        v == validate("id", orderOf(st, self))
        s2 == [s1 EXCEPT !.line[self] = @ \o val]
    IN  IF v # "" THEN thrown(s1, v) ELSE derive(push(s2, self, "id"), self)

idCall(st, self, val) ==
    LET v == validate("id", orderOf(st, self))
        s1 == [st EXCEPT !.line[self] = @ \o <<"#">>]
        s2 == [s1 EXCEPT !.line[self] = @ \o val]
    IN  IF v # "" THEN thrown(st, v) ELSE derive(push(s2, self, "id"), self)

classCall(st, self, cl) ==
    LET v == validate("class", orderOf(st, self))
        s1 == [st EXCEPT !.line[self] = @ \o <<".">>]
        s2 == [s1 EXCEPT !.line[self] = @ \o cl]
    IN  IF v # "" THEN thrown(st, v) ELSE derive(push(s2, self, "class"), self)

\* attr without the closing bracket
attrCallUnclosed(st, self, a) ==
    LET v == validate("attr", orderOf(st, self))
        s1 == [st EXCEPT !.line[self] = @ \o <<"[">>]
        s2 == [s1 EXCEPT !.line[self] = @ \o a]
    IN  IF v # "" THEN thrown(st, v) ELSE derive(push(s2, self, "attr"), self)

attrCall(st, self, a) ==
    LET v == validate("attr", orderOf(st, self))
        s1 == [st EXCEPT !.line[self] = @ \o <<"[">>]
        s2 == [s1 EXCEPT !.line[self] = @ \o a]
        s3 == [s2 EXCEPT !.line[self] = @ \o <<"]">>]
    IN  IF v # "" THEN thrown(st, v) ELSE derive(push(s3, self, "attr"), self)

pseudoClassCall(st, self, ps) ==
    LET v == validate("pseudoClass", orderOf(st, self))
        s1 == [st EXCEPT !.line[self] = @ \o <<":">>]
        s2 == [s1 EXCEPT !.line[self] = @ \o ps]
    IN  IF v # "" THEN thrown(st, v) ELSE derive(push(s2, self, "pseudoClass"), self)

pseudoElementCall(st, self, pse) ==
    LET v == validate("pseudoElement", orderOf(st, self))
        s1 == [st EXCEPT !.line[self] = @ \o <<":", ":">>]
        s2 == [s1 EXCEPT !.line[self] = @ \o pse]
    IN  IF v # "" THEN thrown(st, v) ELSE derive(push(s2, self, "pseudoElement"), self)

\* ------------------------------------------------------------- rendering
\* stringify without `this.order = []`
stringifyCallKeepsOrder(st, self) ==
    LET temp == st.line[self]
        s1 == [st EXCEPT !.line[self] = <<>>]
    IN  returned(s1, retStr(temp))

stringifyCall(st, self) ==
    LET temp == st.line[self]
        s1 == [st EXCEPT !.line[self] = <<>>]
    IN  returned(assignEmptyOrder(s1, self), retStr(temp))

\* toString without `this.line = ''`
toStringCallKeepsLine(st, self) ==
    LET temp == st.line[self]
    IN  returned(assignEmptyOrder(st, self), retStr(temp))

toStringCall(st, self) ==
    LET temp == st.line[self]
        s1 == [st EXCEPT !.line[self] = <<>>]
    IN  returned(assignEmptyOrder(s1, self), retStr(temp))

\* --------------------------------------------------------------- combine
\* An argument of combine: a builder instance or a string
argObj(o) == [isObj |-> TRUE, o |-> o, s |-> <<>>]
argStr(s) == [isObj |-> FALSE, o |-> Base, s |-> s]

\* The loop of combine with the space added after the last argument too
RECURSIVE combineLoopTrailing(_, _, _, _)
combineLoopTrailing(st, args, i, temp) ==
    IF i > Len(args) THEN [st |-> st, temp |-> temp]
    ELSE LET r == IF args[i].isObj THEN toStringCall(st, args[i].o)
                  ELSE returned(st, retStr(args[i].s))
             t1 == temp \o r.ret.s
             t2 == t1 \o <<" ">>
         IN  combineLoopTrailing(r.st, args, i + 1, t2)

\* temp += args[i]: an instance is converted by its toString, which clears it
RECURSIVE combineLoop(_, _, _, _)
combineLoop(st, args, i, temp) ==
    IF i > Len(args) THEN [st |-> st, temp |-> temp]
    ELSE LET r == IF args[i].isObj THEN toStringCall(st, args[i].o)
                  ELSE returned(st, retStr(args[i].s))
             t1 == temp \o r.ret.s
             t2 == IF i < Len(args) THEN t1 \o <<" ">> ELSE t1
         IN  combineLoop(r.st, args, i + 1, t2)

combineCall(st, self, args) ==
    LET r == combineLoop(st, args, 1, <<>>)
    IN  returned([r.st EXCEPT !.line[self] = r.temp], retObj(self))

\* ------------------------------------------------------------ the history
\* A builder instance stands for a chain of fragments while nothing but the
\* chain's own next fragment operation has been invoked on it since it was
\* returned; the base builder is where every chain starts.
start == [pure |-> TRUE, frags |-> <<>>]
used == [pure |-> FALSE, frags |-> <<>>]

operands(args) == {args[i].o : i \in {j \in 1 .. Len(args) : args[j].isObj}}

chainAfter(op, self, val, args, r) ==
    LET touched == IF op = "combine" THEN operands(args) \cup {self}
                   ELSE IF r.thrown # "" THEN {}
                   ELSE {self}
        kept == [o \in DOMAIN chain |->
                    IF o # Base /\ o \in touched THEN used ELSE chain[o]]
    IN  IF op \in Kinds /\ r.thrown = ""
        THEN (r.ret.o :> IF chain[self].pure
                         THEN [pure |-> TRUE,
                               frags |-> Append(chain[self].frags,
                                                [kind |-> op, val |-> val])]
                         ELSE used) @@ kept
        ELSE kept

\* What the calls of combine returned that came right before the call
\* op, latest first: the instance returned, its text on return and the
\* instances the call took as operands.  A call of anything but combine in
\* between ends the run of combine calls.
outcome(l) ==
    [ret |-> l.ret.o, text |-> line[l.ret.o], took |-> operands(l.args)]

firstTwo(s) == IF Len(s) > 2 THEN SubSeq(s, 1, 2) ELSE s

beforeCall(op) ==
    IF op = "combine" /\ last.op = "combine"
    THEN firstTwo(<<outcome(last)>> \o before)
    ELSE <<>>

\* The call op(val) or op(...args) on self had the effect r
Call(op, self, val, args, r) ==
    /\ line' = r.st.line
    /\ order' = r.st.order
    /\ arr' = r.st.arr
    /\ last' = [op |-> op, self |-> self, val |-> val, args |-> args,
                thrown |-> r.thrown, ret |-> r.ret,
                preLine |-> line[self], preOrder |-> orderOf(State, self),
                preTexts |-> [i \in 1 .. Len(args) |->
                                IF args[i].isObj THEN line[args[i].o]
                                ELSE args[i].s],
                preObjs |-> Objs(State)]
    /\ before' = beforeCall(op)
    /\ chain' = chainAfter(op, self, val, args, r)
    /\ combines' = IF op = "combine" THEN combines + 1 ELSE combines
    /\ UNCHANGED <<plain, proto, json, ans, pc>>

\* A fragment operation creates an instance unless it throws
Room(r) == r.thrown # "" \/ Cardinality(Objs(State)) <= MaxObjs

\* ---------------------------------------------------------------- actions
Init ==
    /\ line = (Base :> <<>>)
    /\ order = (Base :> 0)
    /\ arr = [q \in ArrIds |-> <<>>]
    /\ last = [op |-> "init", self |-> Base, val |-> <<>>, args |-> <<>>,
               thrown |-> "", ret |-> retNone,
               preLine |-> <<>>, preOrder |-> <<>>, preTexts |-> <<>>,
               preObjs |-> {}]
    /\ before = <<>>
    /\ chain = (Base :> start)
    /\ combines = 0
    /\ plain = <<>>
    /\ proto = [id |-> 0, props |-> <<>>]
    /\ json = <<>>
    /\ ans = [proto |-> [id |-> 0, props |-> <<>>], own |-> <<>>, set |-> <<>>]
    /\ pc = "builder"

element(self, el) ==
    LET r == elementCall(State, self, el)
    IN  Room(r) /\ Call("element", self, el, <<>>, r)

id(self, val) ==
    LET r == idCall(State, self, val)
    IN  Room(r) /\ Call("id", self, val, <<>>, r)

class(self, cl) ==
    LET r == classCall(State, self, cl)
    IN  Room(r) /\ Call("class", self, cl, <<>>, r)

attr(self, a) ==
    LET r == attrCall(State, self, a)
    IN  Room(r) /\ Call("attr", self, a, <<>>, r)

pseudoClass(self, ps) ==
    LET r == pseudoClassCall(State, self, ps)
    IN  Room(r) /\ Call("pseudoClass", self, ps, <<>>, r)

pseudoElement(self, pse) ==
    LET r == pseudoElementCall(State, self, pse)
    IN  Room(r) /\ Call("pseudoElement", self, pse, <<>>, r)

stringify(self) ==
    Call("stringify", self, <<>>, <<>>, stringifyCall(State, self))

toString(self) ==
    Call("toString", self, <<>>, <<>>, toStringCall(State, self))

\* The argument lists combine is called with: instances and combinator
\* strings in turn, as in combine(a, '+', b) and combine(a, '+', b, '~', c)
RECURSIVE ArgLists(_, _)
ArgLists(n, objs) ==
    IF n = 1 THEN {<<argObj(o)>> : o \in objs}
    ELSE {s \o <<argStr(t), argObj(o)>> :
            s \in ArgLists(n - 2, objs), t \in Tokens, o \in objs}

combine(self, args) ==
    LET r == combineCall(State, self, args)
    IN  /\ Len(r.st.line[self]) <= MaxLen
        /\ Call("combine", self, <<>>, args, r)

OddUpTo(n) == {m \in 1 .. n : m % 2 = 1}

\* The fragment operations and the two renders, on any instance
Chains ==
    \E self \in Objs(State) :
        \/ \E v \in Values :
              \/ element(self, v)
              \/ id(self, v)
              \/ class(self, v)
              \/ attr(self, v)
              \/ pseudoClass(self, v)
              \/ pseudoElement(self, v)
        \/ stringify(self)
        \/ toString(self)

\* combine on any instance, with any instances as operands
Combine ==
    /\ combines < MaxCombines
    /\ \E self \in Objs(State) :
          \E n \in OddUpTo(MaxArgs) :
             \E args \in ArgLists(n, Objs(State)) : combine(self, args)

Next == Chains \/ Combine

Spec == Init /\ [][Next]_vars

\* The fragment operations and the renders alone
SpecChains == Init /\ [][Chains]_vars

\* The builder used as in the documented example: operands made by
\* cssSelectorBuilder.element, results of cssSelectorBuilder.combine handed
\* on to further calls of cssSelectorBuilder.combine, then stringify
NextNested ==
    \/ \E v \in Values : element(Base, v)
    \/ /\ combines < MaxNested
       /\ \E n \in OddUpTo(MaxNestedArgs) :
             \E args \in ArgLists(n, Objs(State)) : combine(Base, args)
    \/ stringify(Base)

SpecNested == Init /\ [][NextNested]_vars

\* ------------------------------------------------- getJSON and fromJSON
\* A JavaScript value JSON can represent: null, a boolean, an integer, a
\* string or an array of such values.
jsNull == [t |-> "null", b |-> FALSE, n |-> 0, s |-> <<>>, items |-> <<>>]
jsBool(b) == [t |-> "bool", b |-> b, n |-> 0, s |-> <<>>, items |-> <<>>]
jsNum(n) == [t |-> "num", b |-> FALSE, n |-> n, s |-> <<>>, items |-> <<>>]
jsStr(s) == [t |-> "str", b |-> FALSE, n |-> 0, s |-> s, items |-> <<>>]
jsArr(items) == [t |-> "arr", b |-> FALSE, n |-> 0, s |-> <<>>, items |-> items]

Quote == "\""
Backslash == "\\"
DigitChars == <<"0", "1", "2", "3", "4", "5", "6", "7", "8", "9">>

\* The property names and the values of the objects handed to getJSON
JKeys == {<<"x">>, <<"y", Quote>>}
ItemValues == {jsNum(1), jsStr(<<",">>), jsNull}
Arrays == UNION {[1 .. n -> ItemValues] : n \in 0 .. MaxItems}
JValues ==
    {jsNull, jsBool(TRUE), jsBool(FALSE)}
    \cup {jsNum(n) : n \in {0, 7, 10, -12}}
    \cup {jsStr(s) : s \in {<<>>, <<"a">>, <<Quote>>, <<Backslash, "n">>, <<"}", ":">>}}
    \cup {jsArr(a) : a \in Arrays}

\* A plain object: its own enumerable properties in the order of creation
prop(key, value) == [key |-> key, value |-> value]
PlainObjects ==
    {<<>>}
    \cup {<<prop(k, v)>> : k \in JKeys, v \in JValues}
    \cup {<<prop(kk[1], v1), prop(kk[2], v2)>> :
            kk \in {q \in JKeys \X JKeys : q[1] # q[2]},
            v1 \in JValues, v2 \in JValues}

\* What a property lookup along the chain of a prototype finds under a
\* name: nothing, a writable data property (a method, say), a data property
\* that is not writable, or an accessor with a setter.
PropKinds == {"none", "data", "readonly", "setter"}
Protos == [id : {1, 2}, props : [JKeys -> PropKinds]]

\* JSON.stringify -----------------------------------------------------------
RECURSIVE digits(_)
digits(n) ==
    IF n < 0 THEN <<"-">> \o digits(0 - n)
    ELSE IF n < 10 THEN <<DigitChars[n + 1]>>
    ELSE digits(n \div 10) \o <<DigitChars[(n % 10) + 1]>>

RECURSIVE escaped(_)
escaped(s) ==
    IF s = <<>> THEN <<>>
    ELSE (IF Head(s) \in {Quote, Backslash} THEN <<Backslash, Head(s)>>
          ELSE <<Head(s)>>) \o escaped(Tail(s))

\* a string literal without the escapes
quoteRaw(s) == <<Quote>> \o s \o <<Quote>>

quote(s) == <<Quote>> \o escaped(s) \o <<Quote>>

RECURSIVE stringifyValue(_)
RECURSIVE stringifyItems(_)
stringifyItems(items) ==
    IF items = <<>> THEN <<>>
    ELSE stringifyValue(Head(items))
         \o (IF Len(items) > 1 THEN <<",">> ELSE <<>>)
         \o stringifyItems(Tail(items))

stringifyValue(v) ==
    CASE v.t = "null" -> <<"n", "u", "l", "l">>
      [] v.t = "bool" -> IF v.b THEN <<"t", "r", "u", "e">>
                         ELSE <<"f", "a", "l", "s", "e">>
      [] v.t = "num" -> digits(v.n)
      [] v.t = "str" -> quote(v.s)
      [] v.t = "arr" -> <<"[">> \o stringifyItems(v.items) \o <<"]">>

RECURSIVE stringifyMembers(_)
stringifyMembers(o) ==
    IF o = <<>> THEN <<>>
    ELSE quote(Head(o).key) \o <<":">> \o stringifyValue(Head(o).value)
         \o (IF Len(o) > 1 THEN <<",">> ELSE <<>>)
         \o stringifyMembers(Tail(o))

JSONstringify(o) == <<"{">> \o stringifyMembers(o) \o <<"}">>

getJSON(o) == JSONstringify(o)

\* JSON.parse ---------------------------------------------------------------
parsed(v, next) == [v |-> v, next |-> next]

isDigit(c) == \E d \in 1 .. 10 : DigitChars[d] = c
digitOf(c) == (CHOOSE d \in 1 .. 10 : DigitChars[d] = c) - 1

\* the string literal whose first character after the quote is text[i]
RECURSIVE parseString(_, _, _)
parseString(text, i, acc) ==
    IF text[i] = Quote THEN parsed(acc, i + 1)
    ELSE IF text[i] = Backslash
         THEN parseString(text, i + 2, Append(acc, text[i + 1]))
         ELSE parseString(text, i + 1, Append(acc, text[i]))

RECURSIVE parseDigits(_, _, _)
parseDigits(text, i, acc) ==
    IF i <= Len(text) /\ isDigit(text[i])
    THEN parseDigits(text, i + 1, 10 * acc + digitOf(text[i]))
    ELSE parsed(acc, i)

RECURSIVE parseValue(_, _)
RECURSIVE parseItems(_, _, _)
parseItems(text, i, acc) ==
    LET r == parseValue(text, i)
    IN  IF text[r.next] = ","
        THEN parseItems(text, r.next + 1, Append(acc, r.v))
        ELSE parsed(jsArr(Append(acc, r.v)), r.next + 1)

parseValue(text, i) ==
    CASE text[i] = "n" -> parsed(jsNull, i + 4)
      [] text[i] = "t" -> parsed(jsBool(TRUE), i + 4)
      [] text[i] = "f" -> parsed(jsBool(FALSE), i + 5)
      [] text[i] = Quote ->
            LET r == parseString(text, i + 1, <<>>) IN parsed(jsStr(r.v), r.next)
      [] text[i] = "-" ->
            LET r == parseDigits(text, i + 1, 0) IN parsed(jsNum(0 - r.v), r.next)
      [] text[i] = "[" ->
            IF text[i + 1] = "]" THEN parsed(jsArr(<<>>), i + 2)
            ELSE parseItems(text, i + 1, <<>>)
      [] OTHER ->
            LET r == parseDigits(text, i, 0) IN parsed(jsNum(r.v), r.next)

\* own[key] = value on the object under construction: a later member of the
\* same name replaces the value of an earlier one
define(own, key, value) ==
    IF \E i \in 1 .. Len(own) : own[i].key = key
    THEN [i \in 1 .. Len(own) |->
            IF own[i].key = key THEN prop(key, value) ELSE own[i]]
    ELSE Append(own, prop(key, value))

RECURSIVE parseMembers(_, _, _)
parseMembers(text, i, acc) ==
    LET k == parseString(text, i + 1, <<>>)
        r == parseValue(text, k.next + 1)
        own == define(acc, k.v, r.v)
    IN  IF text[r.next] = "," THEN parseMembers(text, r.next + 1, own)
        ELSE own

JSONparse(text) ==
    IF text[2] = "}" THEN <<>> ELSE parseMembers(text, 2, <<>>)

ObjectKeys(o) == [i \in 1 .. Len(o) |-> o[i].key]

\* `new C()`
newC == [proto |-> [id |-> 0, props |-> <<>>], own |-> <<>>, set |-> <<>>]

setPrototypeOf(obj, p) == [obj EXCEPT !.proto = p]

\* ans[key] = value: an own property of that name is written; otherwise the
\* prototype decides: a setter is called with the value, a property that is
\* not writable makes the assignment do nothing, and in every other case the
\* object gets an own property
assign(obj, key, value) ==
    IF \E i \in 1 .. Len(obj.own) : obj.own[i].key = key
    THEN [obj EXCEPT !.own = define(@, key, value)]
    ELSE CASE obj.proto.props[key] = "setter" ->
                 [obj EXCEPT !.set = Append(@, prop(key, value))]
           [] obj.proto.props[key] = "readonly" -> obj
           [] OTHER -> [obj EXCEPT !.own = define(@, key, value)]

RECURSIVE copyKeys(_, _, _, _)
copyKeys(obj, input, keys, i) ==
    IF i > Len(keys) THEN obj
    ELSE LET q == CHOOSE j \in 1 .. Len(input) : input[j].key = keys[i]
         IN  copyKeys(assign(obj, keys[i], input[q].value), input, keys, i + 1)

fromJSON(p, text) ==
    LET input == JSONparse(text)
        keys == ObjectKeys(input)
        obj == setPrototypeOf(newC, p)
    IN  copyKeys(obj, input, keys, 1)

InitJSON ==
    /\ line = (Base :> <<>>)
    /\ order = (Base :> 0)
    /\ arr = [q \in ArrIds |-> <<>>]
    /\ last = [op |-> "init", self |-> Base, val |-> <<>>, args |-> <<>>,
               thrown |-> "", ret |-> retNone,
               preLine |-> <<>>, preOrder |-> <<>>, preTexts |-> <<>>,
               preObjs |-> {}]
    /\ before = <<>>
    /\ chain = (Base :> start)
    /\ combines = 0
    /\ plain \in PlainObjects
    /\ proto \in Protos
    /\ json = <<>>
    /\ ans = newC
    /\ pc = "getJSON"

callGetJSON ==
    /\ pc = "getJSON"
    /\ json' = getJSON(plain)
    /\ pc' = "fromJSON"
    /\ UNCHANGED <<line, order, arr, last, before, chain, combines,
                   plain, proto, ans>>

callFromJSON ==
    /\ pc = "fromJSON"
    /\ ans' = fromJSON(proto, json)
    /\ pc' = "done"
    /\ UNCHANGED <<line, order, arr, last, before, chain, combines,
                   plain, proto, json>>

NextJSON == callGetJSON \/ callFromJSON

SpecJSON == InitJSON /\ [][NextJSON]_vars

\* ====================================================================
\* What the specification says, in its own terms
\* ====================================================================
\* Canonical order: element < id < class < attribute < pseudo-class <
\* pseudo-element
Rank(k) ==
    CASE k = "element" -> 1
      [] k = "id" -> 2
      [] k = "class" -> 3
      [] k = "attr" -> 4
      [] k = "pseudoClass" -> 5
      [] k = "pseudoElement" -> 6

Singular == {"element", "id", "pseudoElement"}

\* The syntax form of a fragment
SyntaxForm(k, v) ==
    CASE k = "element" -> v
      [] k = "id" -> <<"#">> \o v
      [] k = "class" -> <<".">> \o v
      [] k = "attr" -> <<"[">> \o v \o <<"]">>
      [] k = "pseudoClass" -> <<":">> \o v
      [] k = "pseudoElement" -> <<":", ":">> \o v

\* The fragments of a chain, each in its syntax form, in call order
RECURSIVE Rendered(_)
Rendered(frags) ==
    IF frags = <<>> THEN <<>>
    ELSE SyntaxForm(Head(frags).kind, Head(frags).val) \o Rendered(Tail(frags))

\* Texts joined with one space between each adjacent pair
RECURSIVE Joined(_)
Joined(texts) ==
    IF texts = <<>> THEN <<>>
    ELSE IF Len(texts) = 1 THEN Head(texts)
    ELSE Head(texts) \o <<" ">> \o Joined(Tail(texts))

\* Distinct kinds in canonical order
Ascending(frags) ==
    \A i, j \in 1 .. Len(frags) : i < j => Rank(frags[i].kind) < Rank(frags[j].kind)

FragmentDone == last.op \in Kinds /\ last.thrown = ""

\* --------------------------------------------------------------------
\* C1: a successful fragment operation leaves the instance it was invoked
\* on as it was: same text, same kindsUsed.
FragmentLeavesReceiver ==
    FragmentDone =>
        /\ line[last.self] = last.preLine
        /\ orderOf(State, last.self) = last.preOrder

\* C2: the base builder is never changed: its text and kindsUsed are empty
\* after every call, and no call returns the base builder itself.
BaseNeverMutated ==
    /\ line[Base] = <<>>
    /\ orderOf(State, Base) = <<>>
    /\ last.ret.t = "obj" => last.ret.o # Base

\* C3: an instance built from the base builder by a chain of distinct kinds
\* in canonical order renders as its fragments' forms in call order, and
\* every kind above the chain's kinds can be added to it without an error,
\* whatever was done through the base builder before the chain started.
ChainsRenderTheirFragments ==
    \A o \in Objs(State) \ {Base} :
        (chain[o].pure /\ Ascending(chain[o].frags)) =>
            /\ stringifyCall(State, o).ret.s = Rendered(chain[o].frags)
            /\ \A k \in Kinds :
                  (\A i \in 1 .. Len(chain[o].frags) :
                        Rank(chain[o].frags[i].kind) < Rank(k))
                  => validate(k, orderOf(State, o)) = ""

\* C4: a successful fragment operation returns a new instance whose text is
\* the receiver's text followed by the syntax form of the value and whose
\* kindsUsed is the receiver's with the kind appended.
FragmentAppends ==
    FragmentDone =>
        /\ last.ret.t = "obj"
        /\ last.ret.o \notin last.preObjs
        /\ line[last.ret.o] = last.preLine \o SyntaxForm(last.op, last.val)
        /\ orderOf(State, last.ret.o) = Append(last.preOrder, last.op)

FragmentAppendsWitness ==
    /\ FragmentDone
    /\ last.op = "attr"
    /\ last.self # Base
    /\ last.preLine # <<>>
    /\ last.preOrder # <<>>

\* C5: adding element, id or pseudo-element to an instance whose kindsUsed
\* holds that kind already raises the duplicate error.
DuplicateRaises ==
    (last.op \in Singular /\ includes(last.preOrder, last.op)) =>
        last.thrown = DuplicateMessage

DuplicateRaisesWitness ==
    /\ last.op = "id"
    /\ last.preOrder = <<"element", "id">>
    /\ last.thrown = DuplicateMessage

\* C6: when the duplicate check does not apply, adding kind K is rejected
\* with the order error exactly when kindsUsed holds a kind ranked above K,
\* and is accepted otherwise.
OrderRule ==
    (last.op \in Kinds /\ ~(last.op \in Singular /\ includes(last.preOrder, last.op)))
    =>
        LET higher == \E i \in 1 .. Len(last.preOrder) :
                          Rank(last.preOrder[i]) > Rank(last.op)
        IN  IF higher THEN last.thrown = OrderMessage ELSE last.thrown = ""

OrderRuleWitness ==
    /\ last.op = "class"
    /\ last.preOrder = <<"class", "attr">>
    /\ last.thrown = OrderMessage

\* C7: class after class, attribute after attribute and pseudo-class after
\* pseudo-class never raise.
RepeatAllowed ==
    (/\ last.op \in {"class", "attr", "pseudoClass"}
     /\ last.preOrder # <<>>
     /\ last.preOrder[Len(last.preOrder)] = last.op)
    => last.thrown = ""

RepeatAllowedWitness ==
    /\ last.op = "attr"
    /\ last.preOrder = <<"attr">>
    /\ FragmentDone
    /\ orderOf(State, last.ret.o) = <<"attr", "attr">>

CombineDone == last.op = "combine" /\ last.thrown = ""

\* The operand at position i was handed to this call at an earlier position too
PassedBefore(i) ==
    /\ last.args[i].isObj
    /\ \E j \in 1 .. i - 1 : last.args[j].isObj /\ last.args[j].o = last.args[i].o

\* C8 as stated: the result of combine(a, tok1, b, tok2, c, ...) has the
\* texts of all operands and all tokens, in call order, one space between
\* each adjacent pair.
CombineJoinsOperands ==
    CombineDone => line[last.ret.o] = Joined(last.preTexts)

\* C8 as amended: the same, but an instance handed to the call more than
\* once gives its text at its first position only and the empty string at
\* its later ones.
CombineJoinsFirstUse ==
    CombineDone =>
        line[last.ret.o] =
            Joined([i \in 1 .. Len(last.args) |->
                      IF PassedBefore(i) THEN <<>> ELSE last.preTexts[i]])

CombineJoinsFirstUseWitness ==
    /\ CombineDone
    /\ Len(last.args) = 5
    /\ \A i \in {3, 5} : ~PassedBefore(i)
    /\ last.preTexts[1] # <<>>
    /\ last.preTexts[5] # <<>>
    /\ last.preTexts[1] # last.preTexts[5]

\* C9: a combine whose operand is the result of the combine called right
\* before it has that result's text, then the token between spaces, then the
\* other operand's text: with both operands results of combine (the left one
\* made first and not an operand of the right one), with the left one only,
\* and with the right one only.
NestedCombineKeepsBoth ==
    (CombineDone /\ Len(last.args) = 3 /\ before # <<>>) =>
        LET x == last.args[1].o
            y == last.args[3].o
            tok == last.args[2].s
            r1 == before[1]
            both == /\ Len(before) = 2 /\ x = before[2].ret /\ y = r1.ret
                    /\ before[2].ret \notin r1.took
            left == ~both /\ x = r1.ret /\ y # r1.ret
            right == ~both /\ y = r1.ret /\ x # r1.ret
            text == line[last.ret.o]
        IN  /\ both => text = Joined(<<before[2].text, tok, r1.text>>)
            /\ left => text = Joined(<<r1.text, tok, last.preTexts[3]>>)
            /\ right => text = Joined(<<last.preTexts[1], tok, r1.text>>)

\* C10: the result of combine has an empty kindsUsed, whichever instance
\* combine is invoked on.
CombineResultHasNoKinds ==
    CombineDone => orderOf(State, last.ret.o) = <<>>

FragmentFailed == last.op \in Kinds /\ last.thrown # ""

\* The duplicate check applies to the latest call
DuplicateCase == last.op \in Singular /\ includes(last.preOrder, last.op)

\* kindsUsed holds a kind ranked above the kind of the latest call
HigherCase ==
    \E i \in 1 .. Len(last.preOrder) : Rank(last.preOrder[i]) > Rank(last.op)

\* C11 as stated: a duplicate failure carries the message with "more than
\* one time", an order failure the message listing the order.
MessagesAsStated ==
    FragmentFailed =>
        IF DuplicateCase
        THEN last.thrown =
               "Element, id and pseudo-element should not occur more than one time inside the selector"
        ELSE last.thrown =
               "Selector parts should be arranged in the following order: element, id, class, attribute, pseudo-class, pseudo-element"

\* C11 as amended: the duplicate failure carries the message spelt "more
\* then one time"; the order failure carries the message as stated.
MessagesAsThrown ==
    FragmentFailed =>
        IF DuplicateCase
        THEN last.thrown =
               "Element, id and pseudo-element should not occur more then one time inside the selector"
        ELSE last.thrown =
               "Selector parts should be arranged in the following order: element, id, class, attribute, pseudo-class, pseudo-element"

MessagesAsThrownWitness ==
    /\ FragmentFailed
    /\ DuplicateCase
    /\ last.op = "pseudoElement"
    /\ last.thrown # OrderMessage

\* C13: in every instance kindsUsed holds element, id and pseudo-element at
\* most once each and never a kind after a kind ranked above it.
KindsUsed(o) == orderOf(State, o)

KindsWellFormed ==
    \A o \in Objs(State) :
        /\ \A i, j \in 1 .. Len(KindsUsed(o)) :
              i < j => Rank(KindsUsed(o)[i]) <= Rank(KindsUsed(o)[j])
        /\ \A k \in Singular :
              Cardinality({i \in 1 .. Len(KindsUsed(o)) : KindsUsed(o)[i] = k}) <= 1

KindsWellFormedWitness ==
    /\ combines > 0
    /\ \E o \in Objs(State) : KindsUsed(o) = <<"id", "class">>
    /\ \E o \in Objs(State) : o # Base /\ KindsUsed(o) = <<>> /\ line[o] # <<>>

\* C14: a singular kind added to an instance whose kindsUsed holds that
\* kind and a kind ranked above it fails with the duplicate failure, not
\* with the order failure.
DuplicateBeforeOrder ==
    (DuplicateCase /\ HigherCase) =>
        /\ last.thrown = DuplicateMessage
        /\ last.thrown # OrderMessage

DuplicateBeforeOrderWitness ==
    /\ last.op = "element"
    /\ last.preOrder = <<"element", "class">>
    /\ last.thrown = DuplicateMessage

\* C15: stringify and toString return the accumulated text and leave the
\* instance with empty text and empty kindsUsed: rendering it again gives
\* the empty string and every singular kind can be added to it.
RenderDone == last.op \in {"stringify", "toString"}

RenderClears ==
    RenderDone =>
        /\ last.ret = retStr(last.preLine)
        /\ line[last.self] = <<>>
        /\ KindsUsed(last.self) = <<>>
        /\ stringifyCall(State, last.self).ret.s = <<>>
        /\ toStringCall(State, last.self).ret.s = <<>>
        /\ \A k \in Singular : validate(k, KindsUsed(last.self)) = ""

RenderClearsWitness ==
    /\ last.op = "stringify"
    /\ last.self # Base
    /\ last.preLine # <<>>
    /\ includes(last.preOrder, "element")

\* C16: an instance built from the base builder by fragment operations
\* alone has the text and the kindsUsed of its own fragments, whatever was
\* called on other instances in between, a failing call on it included; and
\* no two instances refer to the same kindsUsed list.
Kind(f) == f.kind

ChainsIndependent ==
    /\ \A o \in Objs(State) \ {Base} :
          chain[o].pure =>
              /\ line[o] = Rendered(chain[o].frags)
              /\ KindsUsed(o) = [i \in 1 .. Len(chain[o].frags) |-> Kind(chain[o].frags[i])]
    /\ \A o1, o2 \in Objs(State) : o1 # o2 => order[o1] # order[o2]

ChainsIndependentWitness ==
    /\ Cardinality(Objs(State)) = 3
    /\ \A o \in Objs(State) : chain[o].pure
    /\ line[1] # line[2]
    /\ FragmentFailed
    /\ last.self = 1

\* C17: a fragment operation that raises leaves its receiver's text and
\* kindsUsed as they were and makes no new instance.
FailureChangesNothing ==
    FragmentFailed =>
        /\ line[last.self] = last.preLine
        /\ KindsUsed(last.self) = last.preOrder
        /\ Objs(State) = last.preObjs
        /\ last.ret = retNone

FailureChangesNothingWitness ==
    /\ FragmentFailed
    /\ last.op = "id"
    /\ last.thrown = OrderMessage
    /\ last.preLine # <<>>

RoundTripDone == pc = "done"

Own(o) == {o[i] : i \in 1 .. Len(o)}

\* The prototype holds a setter or a property that is not writable under
\* the name of a property of the object
Intercepted ==
    \E i \in 1 .. Len(plain) : proto.props[plain[i].key] \in {"setter", "readonly"}

\* C12 as stated: for every plain object and every prototype,
\* fromJSON(P, getJSON(o)) has the own enumerable keys and values of o and
\* the prototype P.
RoundTrip ==
    RoundTripDone =>
        /\ Own(ans.own) = Own(plain)
        /\ ObjectKeys(ans.own) = ObjectKeys(plain)
        /\ ans.proto = proto

\* C12 as amended: the same for every prototype whose chain holds neither a
\* setter nor a property that is not writable under the name of a key of o.
RoundTripPlainPrototype ==
    (RoundTripDone /\ ~Intercepted) =>
        /\ Own(ans.own) = Own(plain)
        /\ ObjectKeys(ans.own) = ObjectKeys(plain)
        /\ ans.proto = proto

RoundTripPlainPrototypeWitness ==
    /\ RoundTripDone
    /\ ~Intercepted
    /\ Len(plain) = 2
    /\ plain[1].key = <<"y", Quote>>
    /\ plain[1].value = jsStr(<<Backslash, "n">>)
    /\ plain[2].value.t = "arr"
    /\ plain[2].value.items # <<>>
    /\ proto.props[plain[1].key] = "data"
    /\ proto.id = 2

====
